---- MODULE Spec2Model ----
(***************************************************************************)
(* Model of src/vision/yolo_prediction_fast.py: the threaded detection     *)
(* pipeline (FrameCapture, YOLOProcessor, the main loop and its shutdown)  *)
(* with the PerformanceAdaptor and the DetectionSmoother it drives.        *)
(*                                                                         *)
(* Time.  The code stores readings of time.time() (t_prev, last_overlay,   *)
(* last_adjustment) and only ever uses the differences now - stamp.  The   *)
(* model keeps these differences (since_t_prev, since_overlay,             *)
(* since_adjustment) in whole seconds; a reading of the clock adds the     *)
(* time that passed to each of them.  A difference that is only compared   *)
(* with a threshold saturates at that threshold.                           *)
(***************************************************************************)
EXTENDS Integers, Sequences, FiniteSets, TLC

\* ---------------------------------------------------------------- settings
IMG_SIZE == 416
FRAME_SKIP == 2
BUFFER_SIZE == 3
OVERLAY_FPS == 15
MAIN_TARGET_FPS == 12
ADJUSTMENT_INTERVAL == 3
FPS_WINDOW == 8
MIN_SAMPLES == 5
MAX_SKIP == 4
MIN_IMG_SIZE == 320
IMG_STEP == 96
MAX_HISTORY == 5

\* ------------------------------------------------------------------ bounds
\* Frames the Frame Source delivers before its acquisition fails: enough for
\* the result channel to fill and overflow (one result per FRAME_SKIP frames).
MaxCaptures == 8
\* The same, in the runs that are checked under fairness.
MaxFairCaptures == 2
\* Iterations the main loop makes in one second of the clock (its pace is set
\* by the sleep of line 332 and the work of one pass).
LoopsPerSecond == 1

\* FPS samples fed to the adaptor when it is exercised on its own
\* (3 is below 0.8 * 12, 20 is above 1.3 * 12; their mixes fall inside too).
LowFps == 3
HighFps == 20
FpsValues == {LowFps, HighFps}
\* Gated evaluations that are counted when the adaptor is exercised on its own.
GatedCap == 4
\* Calls of smooth_detections that are counted: past the history's capacity.
CallsCap == 7

\* ----------------------------------------------------------------- helpers
Min(a, b) == IF a <= b THEN a ELSE b
Max(a, b) == IF a >= b THEN a ELSE b

RECURSIVE SeqSum(_)
SeqSum(s) == IF s = <<>> THEN 0 ELSE Head(s) + SeqSum(Tail(s))

\* deque(maxlen=n).append(x): the oldest element is evicted at capacity.
DequeAppend(d, x, n) ==
    IF Len(d) < n THEN Append(d, x) ELSE Append(Tail(d), x)

\* ------------------------------------------------------ PerformanceAdaptor
\* PerformanceAdaptor.__init__
NewAdaptor(target) ==
    [ target_fps          |-> target,
      adjustment_interval |-> ADJUSTMENT_INTERVAL,
      since_adjustment    |-> 0,
      fps_history         |-> <<>>,
      current_skip        |-> FRAME_SKIP,
      current_img_size    |-> IMG_SIZE ]

\* time.time() read d seconds later: now - last_adjustment grows by d.
AdaptorElapse(a, d) ==
    [a EXCEPT !.since_adjustment = Min(@ + d, a.adjustment_interval)]

\* now - self.last_adjustment >= self.adjustment_interval and len(...) >= 5,
\* evaluated on the window that already holds the new sample.
GateOr(a, h) ==
    a.since_adjustment >= a.adjustment_interval \/ Len(h) >= MIN_SAMPLES
GateMet(a, h) ==
    a.since_adjustment >= a.adjustment_interval /\ Len(h) >= MIN_SAMPLES

\* avg_fps < target_fps * 0.8   (avg = sum / len, compared without division)
PerformanceLow(a, h) == 10 * SeqSum(h) < 8 * a.target_fps * Len(h)
\* avg_fps > target_fps * 1.3
PerformanceGood(a, h) == 10 * SeqSum(h) > 13 * a.target_fps * Len(h)

\* The "performance too low" branch: skip first, image size only at the cap.
DegradeImageFirst(a) ==
    IF a.current_img_size > MIN_IMG_SIZE
    THEN [a EXCEPT !.current_img_size = Max(MIN_IMG_SIZE, @ - IMG_STEP)]
    ELSE IF a.current_skip < MAX_SKIP
         THEN [a EXCEPT !.current_skip = @ + 1]
         ELSE a
DegradeBoth(a) ==
    IF a.current_skip < MAX_SKIP
    THEN [a EXCEPT !.current_skip = @ + 1,
                   !.current_img_size = Max(MIN_IMG_SIZE, @ - IMG_STEP)]
    ELSE IF a.current_img_size > MIN_IMG_SIZE
         THEN [a EXCEPT !.current_img_size = Max(MIN_IMG_SIZE, @ - IMG_STEP)]
         ELSE a
Degrade(a) ==
    IF a.current_skip < MAX_SKIP
    THEN [a EXCEPT !.current_skip = @ + 1]
    ELSE IF a.current_img_size > MIN_IMG_SIZE
         THEN [a EXCEPT !.current_img_size = Max(MIN_IMG_SIZE, @ - IMG_STEP)]
         ELSE a

\* The "can improve quality" branch.
ImproveNoFloor(a) == [a EXCEPT !.current_skip = @ - 1]
ImproveNoCeiling(a) ==
    IF a.current_skip > 1
    THEN [a EXCEPT !.current_skip = @ - 1]
    ELSE [a EXCEPT !.current_img_size = @ + IMG_STEP]
Improve(a) ==
    IF a.current_skip > 1
    THEN [a EXCEPT !.current_skip = @ - 1]
    ELSE IF a.current_img_size < IMG_SIZE
         THEN [a EXCEPT !.current_img_size = Min(IMG_SIZE, @ + IMG_STEP)]
         ELSE a

\* PerformanceAdaptor.update_performance(fps); the caller reads the result's
\* (current_skip, current_img_size) as the returned pair.
update_performance_stamp_on_change(a, fps) ==
    LET h == DequeAppend(a.fps_history, fps, FPS_WINDOW)
        b == [a EXCEPT !.fps_history = h]
    IN  IF GateMet(a, h)
        THEN LET c == IF PerformanceLow(b, h) THEN Degrade(b)
                      ELSE IF PerformanceGood(b, h) THEN Improve(b)
                      ELSE b
             IN  IF c = b THEN b ELSE [c EXCEPT !.since_adjustment = 0]
        ELSE b
update_performance(a, fps) ==
    LET h == DequeAppend(a.fps_history, fps, FPS_WINDOW)
        b == [a EXCEPT !.fps_history = h]
    IN  IF GateMet(a, h)
        THEN LET c == IF PerformanceLow(b, h) THEN Degrade(b)
                      ELSE IF PerformanceGood(b, h) THEN Improve(b)
                      ELSE b
             IN  [c EXCEPT !.since_adjustment = 0]
        ELSE b

\* ------------------------------------------------------- DetectionSmoother
\* A detection is <<x1, y1, x2, y2, label>>.  A label f"{name} {conf:.2f}" is
\* kept as the words of the name and the confidence its text shows, in
\* hundredths (NoConf: the last token is not a number); its field reported is
\* not part of the text: it remembers the confidence the model gave, in
\* thousandths, for the properties that speak about it.
Abs(x) == IF x < 0 THEN -x ELSE x

\* int(v) of the quotient num / den (den > 0): truncation toward zero.
TruncDiv(num, den) == IF num >= 0 THEN num \div den ELSE -((-num) \div den)

\* label.split()[0]
FirstWord(label) == Head(label.words)

\* same class, nearby position (lines 142-143)
SimilarAnywhere(det, hist_det) == FirstWord(det[5]) = FirstWord(hist_det[5])
Similar(det, hist_det) ==
    /\ FirstWord(det[5]) = FirstWord(hist_det[5])
    /\ Abs(det[1] - hist_det[1]) < 50
    /\ Abs(det[2] - hist_det[2]) < 50

RECURSIVE SimilarIn(_, _)
\* the detections of one historical set that are similar to det, in order
SimilarIn(det, hist_dets) ==
    IF hist_dets = <<>> THEN <<>>
    ELSE (IF Similar(det, Head(hist_dets)) THEN <<Head(hist_dets)>> ELSE <<>>)
         \o SimilarIn(det, Tail(hist_dets))

RECURSIVE SimilarDets(_, _)
\* similar_dets: collected over every set of the history
SimilarDets(det, history) ==
    IF history = <<>> THEN <<>>
    ELSE SimilarIn(det, Head(history)) \o SimilarDets(det, Tail(history))

RECURSIVE CoordSum(_, _)
CoordSum(dets, i) ==
    IF dets = <<>> THEN 0 ELSE Head(dets)[i] + CoordSum(Tail(dets), i)

\* int(x * (1 - 0.8) + avg * 0.8) with avg = sum / n, as (x*n + 4*sum) / (5*n)
SmoothCoord(x, sum, n) == TruncDiv(x * n + 4 * sum, 5 * n)

SmoothOneRelabels(det, history) ==
    LET sim == SimilarDets(det, history)
        n   == Len(sim)
    IN  IF n > 0
        THEN << SmoothCoord(det[1], CoordSum(sim, 1), n),
                SmoothCoord(det[2], CoordSum(sim, 2), n),
                SmoothCoord(det[3], CoordSum(sim, 3), n),
                SmoothCoord(det[4], CoordSum(sim, 4), n),
                Head(sim)[5] >>
        ELSE det
SmoothOne(det, history) ==
    LET sim == SimilarDets(det, history)
        n   == Len(sim)
    IN  IF n > 0
        THEN << SmoothCoord(det[1], CoordSum(sim, 1), n),
                SmoothCoord(det[2], CoordSum(sim, 2), n),
                SmoothCoord(det[3], CoordSum(sim, 3), n),
                SmoothCoord(det[4], CoordSum(sim, 4), n),
                det[5] >>
        ELSE det

\* smooth_detections: the history after the append, and the returned set
SmootherAppendNoEvict(history, current_dets) == Append(history, current_dets)
SmootherAppend(history, current_dets) ==
    DequeAppend(history, current_dets, MAX_HISTORY)

smooth_detections(history, current_dets) ==
    LET h == SmootherAppend(history, current_dets)
    IN  IF Len(h) < 2 THEN current_dets
        ELSE [i \in 1..Len(current_dets) |-> SmoothOne(current_dets[i], h)]

\* ---------------------------------------------------------- Detection Model
\* The model is a pure function of the frame.  Frames are numbered in capture
\* order; raw coordinates are in tenths of a pixel, confidence in thousandths.
\* Frames are CAM_RES = (1280, 720); the model reports boxes within [0, 1280]
\* x [0, 720], the right and bottom edge included.
CONF_THRES == 350
FRAME_W == 1280
FRAME_H == 720
PersonLabel == <<"person">>

RawBoxes(frame) ==
    IF frame % 2 = 1
    THEN << [xyxy |-> <<104, 108, 12800, 502>>, conf |-> 900, words |-> PersonLabel] >>
    ELSE << [xyxy |-> <<128, 141, 563, 507>>, conf |-> 400, words |-> PersonLabel],
            [xyxy |-> <<3005, 2001, 3507, 2609>>, conf |-> 300, words |-> PersonLabel] >>

\* f"{conf:.2f}": the confidence rounded to hundredths.  (A tie, conf ending
\* in 5 thousandths, goes by the binary value; the confidences used avoid it.)
FormatConf(conf) == (conf + 5) \div 10

NoConf == -1
\* f"{names[cls]} {conf:.2f}"
Label(words, conf) ==
    [words |-> words, conf |-> FormatConf(conf), reported |-> conf]

\* int(x) of a coordinate given in tenths
ToInt(tenths) == TruncDiv(tenths, 10)

RECURSIVE KeepConfident(_, _)
\* lines 91-102: the boxes with conf >= conf_thres, as detections
KeepConfident(boxes, conf_thres) ==
    IF boxes = <<>> THEN <<>>
    ELSE LET b == Head(boxes)
         IN  (IF b.conf >= conf_thres
              THEN << << ToInt(b.xyxy[1]), ToInt(b.xyxy[2]),
                         ToInt(b.xyxy[3]), ToInt(b.xyxy[4]),
                         Label(b.words, b.conf) >> >>
              ELSE <<>>)
             \o KeepConfident(Tail(boxes), conf_thres)

\* ------------------------------------------------------- Overlay Compositor
RECURSIVE DrawnBoxes(_)
\* make_overlay, lines 211-223: a detection whose label ends in a number
\* below 0.5 is skipped
LowConfidenceBelowThreshold(label) == label.conf # NoConf /\ label.conf < 35
LowConfidence(label) == label.conf # NoConf /\ label.conf < 50

DrawnBoxes(dets) ==
    IF dets = <<>> THEN <<>>
    ELSE (IF LowConfidence(Head(dets)[5]) THEN <<>> ELSE <<Head(dets)>>)
         \o DrawnBoxes(Tail(dets))

make_overlay(dets, fps) == [boxes |-> DrawnBoxes(dets), fps |-> fps]
NoOverlay == [boxes |-> <<>>, fps |-> -1]

\* ------------------------------------------------------------------ queues
\* queue.Queue(maxsize=BUFFER_SIZE)
QueueFullOffByOne(q) == Len(q) > BUFFER_SIZE
QueueFull(q) == Len(q) >= BUFFER_SIZE
QueuePutFront(q, x) == <<x>> \o q
QueuePut(q, x) == Append(q, x)

\* The last BUFFER_SIZE items a channel accepted, oldest first.
Remember(acc, x) == DequeAppend(acc, x, BUFFER_SIZE)
LastN(s, n) == SubSeq(s, Len(s) - n + 1, Len(s))

\* ------------------------------------------------------------------- state
VARIABLES
    stop_event,        \* threading.Event
    frame_queue,       \* frames, oldest first
    result_queue,      \* [rgb, dets] records, oldest first
    source_budget,     \* frames the Frame Source delivers before it fails
    captured,          \* frames the Frame Source has delivered
    capture_pc,        \* FrameCapture.run: "loop", "check_full", "put", "done", "failed"
    capture_rgb,       \* its local rgb (0: none)
    processor,         \* YOLOProcessor fields: frame_skip, img_size, conf_thres, frame_count
    processor_pc,      \* YOLOProcessor.run: "loop", "infer", "check_full", "put", "done", "failed"
    processor_rgb,     \* its local rgb (0: none)
    processor_dets,    \* its local dets
    main_pc,           \* main: "drain", "account", then the steps of the finally block
    frames,            \* loop iterations since t_prev
    shown_fps,
    since_t_prev,      \* now - t_prev
    since_overlay,     \* now - last_overlay, saturating at 1 (any value >= 1/15 s)
    latest_dets,
    detection_history, \* smoother.detection_history
    adaptor,           \* the PerformanceAdaptor
    current_skip,      \* main's locals holding the adaptor's returned pair (0: unbound)
    current_img_size,
    overlay,           \* the Preview Surface's overlay
    camera,            \* "started" / "stopped"
    preview,           \* "started" / "stopped"
    shutdown_calls,    \* the calls the finally block has made, in order
    frame_accepted,    \* the last BUFFER_SIZE frames frame_queue accepted
    result_accepted,   \* the last BUFFER_SIZE frames whose result result_queue accepted
    fed,               \* AdaptorSpec: the FPS values update_performance was given
    gated,             \* AdaptorSpec: its calls that met the gate (up to GatedCap)
    effect,            \* AdaptorSpec: the knob change <<skip, img_size>> of its last gated call
    published,         \* results result_queue accepted so far
    smoother_call      \* smooth_detections: calls so far (up to CallsCap), last input

captureVars == <<source_budget, captured, capture_pc, capture_rgb>>
processorVars == <<processor, processor_pc, processor_rgb, processor_dets>>
clockVars == <<frames, shown_fps, since_t_prev, since_overlay>>
smootherVars == <<latest_dets, detection_history, smoother_call>>
adaptorVars == <<adaptor, current_skip, current_img_size, fed, gated, effect>>
surfaceVars == <<overlay, camera, preview, shutdown_calls>>
frameChannel == <<frame_queue, frame_accepted>>
resultChannel == <<result_queue, result_accepted, published>>
mainVars == <<main_pc, clockVars, smootherVars, adaptorVars, surfaceVars>>

vars == <<stop_event, frameChannel, resultChannel, captureVars, processorVars,
          mainVars>>

\* main, lines 262-293: the state when the loop is entered
Constructed ==
    /\ stop_event = FALSE
    /\ frame_queue = <<>>
    /\ result_queue = <<>>
    /\ captured = 0
    /\ capture_pc = "loop"
    /\ capture_rgb = 0
    /\ processor = [frame_skip |-> FRAME_SKIP, img_size |-> IMG_SIZE,
                    conf_thres |-> CONF_THRES, frame_count |-> 0]
    /\ processor_pc = "loop"
    /\ processor_rgb = 0
    /\ processor_dets = <<>>
    /\ main_pc = "drain"
    /\ frames = 0
    /\ shown_fps = 0
    /\ since_t_prev = 0
    /\ since_overlay = 1
    /\ latest_dets = <<>>
    /\ detection_history = <<>>
    /\ adaptor = NewAdaptor(MAIN_TARGET_FPS)
    /\ current_skip = 0
    /\ current_img_size = 0
    /\ overlay = NoOverlay
    /\ camera = "started"
    /\ preview = "started"
    /\ shutdown_calls = <<>>
    /\ frame_accepted = <<>>
    /\ result_accepted = <<>>
    /\ fed = {}
    /\ gated = 0
    /\ effect = <<0, 0>>
    /\ published = 0
    /\ smoother_call = [n |-> 0, dets |-> <<>>]

Init == Constructed /\ source_budget = MaxCaptures
FairInit == Constructed /\ source_budget = MaxFairCaptures

\* ------------------------------------------------------------ FrameCapture
\* line 44 and lines 47-49: the loop head and the capture call
CaptureLoop ==
    /\ capture_pc = "loop"
    /\ IF stop_event
       THEN capture_pc' = "done" /\ UNCHANGED <<captured, capture_rgb>>
       ELSE \/ /\ captured < source_budget
               /\ captured' = captured + 1
               /\ capture_rgb' = captured + 1
               /\ capture_pc' = "check_full"
            \/ \* capture_array raises: lines 57-60
               /\ capture_pc' = "failed"
               /\ UNCHANGED <<captured, capture_rgb>>
    /\ UNCHANGED <<stop_event, source_budget, frameChannel, resultChannel,
                   processorVars, mainVars>>

\* line 52: if not self.frame_queue.full()
CaptureCheckFullAlwaysPuts ==
    /\ capture_pc = "check_full"
    /\ capture_pc' = "put"
    /\ UNCHANGED <<stop_event, frame_queue, frame_accepted, resultChannel,
                   source_budget, captured, capture_rgb, processorVars, mainVars>>
CaptureCheckFull ==
    /\ capture_pc = "check_full"
    /\ IF QueueFull(frame_queue)
       THEN capture_pc' = "loop"
       ELSE capture_pc' = "put"
    /\ UNCHANGED <<stop_event, frame_queue, frame_accepted, resultChannel,
                   source_budget, captured, capture_rgb, processorVars, mainVars>>

\* line 53 and lines 55-56: put(rgb, block=False); queue.Full is swallowed
CapturePut ==
    /\ capture_pc = "put"
    /\ IF QueueFull(frame_queue)
       THEN UNCHANGED <<frame_queue, frame_accepted>>
       ELSE /\ frame_queue' = QueuePut(frame_queue, capture_rgb)
            /\ frame_accepted' = Remember(frame_accepted, capture_rgb)
    /\ capture_pc' = "loop"
    /\ UNCHANGED <<stop_event, resultChannel, source_budget, captured,
                   capture_rgb, processorVars, mainVars>>

CaptureNext == CaptureLoop \/ CaptureCheckFull \/ CapturePut

\* ----------------------------------------------------------- YOLOProcessor
\* line 77: while not self.stop_event.is_set()
ProcessorLoop ==
    /\ processor_pc = "loop"
    /\ processor_pc' = IF stop_event THEN "done" ELSE "get"
    /\ UNCHANGED <<stop_event, frameChannel, resultChannel, captureVars,
                   processor, processor_rgb, processor_dets, mainVars>>

\* line 80 with an empty queue: queue.Empty after the timeout, lines 108-109
ProcessorGetBlocks == FALSE
ProcessorGetEmptyCounts ==
    /\ processor_pc' = "loop"
    /\ processor' = [processor EXCEPT !.frame_count = @ + 1]
    /\ UNCHANGED <<frameChannel, processor_rgb>>
ProcessorGetEmpty ==
    /\ processor_pc' = "loop"
    /\ UNCHANGED <<frameChannel, processor, processor_rgb>>

\* lines 80-85: get(timeout=0.1), the frame counter and the frame skipping
ProcessorGet ==
    /\ processor_pc = "get"
    /\ IF frame_queue = <<>>
       THEN ProcessorGetEmpty
       ELSE /\ processor_rgb' = Head(frame_queue)
            /\ frame_queue' = Tail(frame_queue)
            /\ processor' = [processor EXCEPT !.frame_count = @ + 1]
            /\ processor_pc' = IF processor'.frame_count % processor.frame_skip # 0
                               THEN "loop" ELSE "infer"
            /\ UNCHANGED frame_accepted
    /\ UNCHANGED <<stop_event, resultChannel, captureVars, processor_dets, mainVars>>

\* lines 88-102: the model call and the confidence filter; lines 112-115 when
\* the call raises
ProcessorInfer ==
    /\ processor_pc = "infer"
    /\ \/ /\ processor_dets' = KeepConfident(RawBoxes(processor_rgb),
                                              processor.conf_thres)
          /\ processor_pc' = "check_full"
       \/ /\ processor_pc' = "failed"
          /\ UNCHANGED processor_dets
    /\ UNCHANGED <<stop_event, frameChannel, resultChannel, captureVars,
                   processor, processor_rgb, mainVars>>

\* line 105: if not self.result_queue.full()
ProcessorCheckFull ==
    /\ processor_pc = "check_full"
    /\ IF QueueFull(result_queue)
       THEN processor_pc' = "loop"
       ELSE processor_pc' = "put"
    /\ UNCHANGED <<stop_event, frameChannel, resultChannel,
                   captureVars, processor, processor_rgb, processor_dets, mainVars>>

\* line 106 and lines 110-111: put((rgb, dets), block=False)
ProcessorPut ==
    /\ processor_pc = "put"
    /\ IF QueueFull(result_queue)
       THEN UNCHANGED <<result_queue, result_accepted, published>>
       ELSE /\ result_queue' = QueuePut(result_queue,
                                  [rgb |-> processor_rgb, dets |-> processor_dets])
            /\ result_accepted' = Remember(result_accepted, processor_rgb)
            /\ published' = published + 1
    /\ processor_pc' = "loop"
    /\ UNCHANGED <<stop_event, frameChannel, captureVars, processor,
                   processor_rgb, processor_dets, mainVars>>

ProcessorNext ==
    ProcessorLoop \/ ProcessorGet \/ ProcessorInfer \/ ProcessorCheckFull
    \/ ProcessorPut

\* -------------------------------------------------------------------- main
\* line 316: current_skip, current_img_size = adaptor.update_performance(fps)
AdaptorCall(a, fps) ==
    /\ adaptor' = update_performance(a, fps)
    /\ current_skip' = adaptor'.current_skip
    /\ current_img_size' = adaptor'.current_img_size

\* line 304: latest_dets = smoother.smooth_detections(dets)
SmootherCall(dets) ==
    /\ latest_dets' = smooth_detections(detection_history, dets)
    /\ detection_history' = SmootherAppend(detection_history, dets)
    /\ smoother_call' = [n |-> Min(smoother_call.n + 1, CallsCap), dets |-> dets]

\* lines 301-307: result_queue.get(block=False) and the smoothing
MainDrainClearsOnEmpty ==
    /\ main_pc = "drain"
    /\ IF result_queue = <<>>
       THEN /\ latest_dets' = <<>>
            /\ UNCHANGED <<resultChannel, detection_history, smoother_call>>
       ELSE /\ SmootherCall(Head(result_queue).dets)
            /\ result_queue' = Tail(result_queue)
            /\ UNCHANGED <<result_accepted, published>>
    /\ main_pc' = "account"
    /\ UNCHANGED <<stop_event, frameChannel, captureVars, processorVars,
                   clockVars, adaptorVars, surfaceVars>>
MainDrain ==
    /\ main_pc = "drain"
    /\ IF result_queue = <<>>
       THEN UNCHANGED <<resultChannel, smootherVars>>
       ELSE /\ SmootherCall(Head(result_queue).dets)
            /\ result_queue' = Tail(result_queue)
            /\ UNCHANGED <<result_accepted, published>>
    /\ main_pc' = "account"
    /\ UNCHANGED <<stop_event, frameChannel, captureVars, processorVars,
                   clockVars, adaptorVars, surfaceVars>>

\* lines 310-332: the FPS accounting, the adaptor and the throttled overlay.
\* d is the time that passed since the previous reading of the clock: a whole
\* second has passed at every LoopsPerSecond-th iteration.
MainAccount ==
    /\ main_pc = "account"
    /\ \E d \in {IF frames + 1 >= LoopsPerSecond THEN 1 ELSE 0} :
         LET elapsed == since_t_prev + d
             tick    == elapsed >= 1
             fps     == IF tick THEN (frames + 1) \div elapsed ELSE shown_fps
             due     == (since_overlay + d) * OVERLAY_FPS >= 1
         IN  /\ shown_fps' = fps
             /\ IF tick
                THEN /\ AdaptorCall(AdaptorElapse(adaptor, d), fps)
                     /\ frames' = 0
                     /\ since_t_prev' = 0
                ELSE /\ adaptor' = AdaptorElapse(adaptor, d)
                     /\ frames' = frames + 1
                     /\ since_t_prev' = elapsed
                     /\ UNCHANGED <<current_skip, current_img_size>>
             /\ IF due
                THEN /\ overlay' = make_overlay(latest_dets, fps)
                     /\ since_overlay' = 0
                ELSE /\ since_overlay' = Min(since_overlay + d, 1)
                     /\ UNCHANGED overlay
    /\ main_pc' = "drain"
    /\ UNCHANGED <<stop_event, frameChannel, resultChannel, captureVars,
                   processorVars, smootherVars, camera, preview, shutdown_calls,
                   fed, gated, effect>>

\* lines 334-336: KeyboardInterrupt, or any exception raised inside the loop,
\* leaves the loop for the finally block
MainExit ==
    /\ main_pc \in {"drain", "account"}
    /\ main_pc' = "set_stop"
    /\ UNCHANGED <<stop_event, frameChannel, resultChannel, captureVars,
                   processorVars, clockVars, smootherVars, adaptorVars, surfaceVars>>

\* One statement of the finally block: its call is recorded and control moves on.
FinallyStep(at, call, next) ==
    /\ main_pc = at
    /\ main_pc' = next
    /\ shutdown_calls' = Append(shutdown_calls, call)

\* line 338
MainSetStop ==
    /\ FinallyStep("set_stop", "stop_event.set", "join_capture")
    /\ stop_event' = TRUE
    /\ UNCHANGED <<frameChannel, resultChannel, captureVars, processorVars,
                   clockVars, smootherVars, adaptorVars, overlay, camera, preview>>

\* line 341: returns when the thread has ended or after the timeout
MainJoinCapture ==
    /\ FinallyStep("join_capture", "capture_thread.join", "join_processor")
    /\ UNCHANGED <<stop_event, frameChannel, resultChannel, captureVars,
                   processorVars, clockVars, smootherVars, adaptorVars,
                   overlay, camera, preview>>

\* line 342
MainJoinProcessor ==
    /\ FinallyStep("join_processor", "processor_thread.join", "clear_overlay")
    /\ UNCHANGED <<stop_event, frameChannel, resultChannel, captureVars,
                   processorVars, clockVars, smootherVars, adaptorVars,
                   overlay, camera, preview>>

\* line 345
MainSkipClearOverlay ==
    /\ main_pc = "clear_overlay"
    /\ main_pc' = "camera_stop"
    /\ UNCHANGED <<stop_event, frameChannel, resultChannel, captureVars,
                   processorVars, clockVars, smootherVars, adaptorVars,
                   overlay, camera, preview, shutdown_calls>>
MainClearOverlay ==
    /\ FinallyStep("clear_overlay", "set_overlay(None)", "camera_stop")
    /\ overlay' = NoOverlay
    /\ UNCHANGED <<stop_event, frameChannel, resultChannel, captureVars,
                   processorVars, clockVars, smootherVars, adaptorVars,
                   camera, preview>>

\* line 346
MainCameraStop ==
    /\ FinallyStep("camera_stop", "picam2.stop", "stop_preview")
    /\ camera' = "stopped"
    /\ UNCHANGED <<stop_event, frameChannel, resultChannel, captureVars,
                   processorVars, clockVars, smootherVars, adaptorVars,
                   overlay, preview>>

\* line 347
MainStopPreview ==
    /\ FinallyStep("stop_preview", "picam2.stop_preview", "stopped")
    /\ preview' = "stopped"
    /\ UNCHANGED <<stop_event, frameChannel, resultChannel, captureVars,
                   processorVars, clockVars, smootherVars, adaptorVars,
                   overlay, camera>>

MainLoop == MainDrain \/ MainAccount
MainFinally ==
    MainSetStop \/ MainJoinCapture \/ MainJoinProcessor \/ MainClearOverlay
    \/ MainCameraStop \/ MainStopPreview

Next == CaptureNext \/ ProcessorNext \/ MainLoop \/ MainExit \/ MainFinally

Spec == Init /\ [][Next]_vars

\* The threads are scheduled fairly and the main thread keeps running; the
\* interrupt (MainExit) is the environment's and may never come.
FairSpec ==
    /\ FairInit /\ [][Next]_vars
    /\ WF_vars(CaptureNext)
    /\ WF_vars(ProcessorNext)
    /\ WF_vars(MainLoop)
    /\ WF_vars(MainFinally)

\* ------------------------------------------------ the adaptor on its own
\* One second passes.
AdaptorTick ==
    /\ adaptor' = AdaptorElapse(adaptor, 1)
    /\ UNCHANGED <<stop_event, frameChannel, resultChannel, captureVars,
                   processorVars, main_pc, clockVars, smootherVars, surfaceVars,
                   current_skip, current_img_size, fed, gated, effect>>

\* update_performance is called with any measured FPS.
AdaptorUpdate ==
    /\ \E fps \in FpsValues :
          /\ AdaptorCall(adaptor, fps)
          /\ fed' = fed \cup {fps}
          /\ gated' = IF GateMet(adaptor,
                                 DequeAppend(adaptor.fps_history, fps, FPS_WINDOW))
                      THEN Min(gated + 1, GatedCap) ELSE gated
          /\ effect' = IF GateMet(adaptor, adaptor'.fps_history)
                       THEN << adaptor'.current_skip - adaptor.current_skip,
                               adaptor'.current_img_size - adaptor.current_img_size >>
                       ELSE effect
    /\ UNCHANGED <<stop_event, frameChannel, resultChannel, captureVars,
                   processorVars, main_pc, clockVars, smootherVars, surfaceVars>>

AdaptorNext == AdaptorTick \/ AdaptorUpdate

AdaptorSpec == Init /\ [][AdaptorNext]_vars

\* ------------------------------- the smoother and the compositor on their own
\* Detection sets handed to smooth_detections: what the Inference Stage makes
\* of boxes with confidences around its threshold and around 0.5, and sets
\* with boxes of one class close together, of different classes close
\* together, of classes whose names begin with the same word, with a label
\* that does not end in a number, and with a box that fills the frame next to
\* an empty box 49 px from its corner.
RawAroundThresholds ==
    << [xyxy |-> <<128, 141, 563, 507>>, conf |-> 400, words |-> PersonLabel],
       [xyxy |-> <<3005, 2001, 3507, 2609>>, conf |-> 496, words |-> PersonLabel],
       [xyxy |-> <<6000, 3000, 6500, 3500>>, conf |-> 300, words |-> PersonLabel] >>
Det(x1, y1, x2, y2, words, conf) == <<x1, y1, x2, y2, Label(words, conf)>>
Person1 == Det(100, 100, 200, 300, <<"person">>, 900)
Person2 == Det(140, 120, 400, 420, <<"person">>, 450)
Car == Det(105, 100, 300, 250, <<"car">>, 800)
Bat == Det(103, 98, 150, 310, <<"baseball", "bat">>, 600)
Glove == Det(110, 110, 180, 170, <<"baseball", "glove">>, 700)
WholeFrame == Det(0, 0, FRAME_W - 1, FRAME_H - 1, <<"person">>, 900)
Point == Det(49, 49, 49, 49, <<"person">>, 600)
Unlabelled ==
    <<600, 400, 640, 480, [words |-> <<"traffic", "light">>, conf |-> NoConf,
                           reported |-> 550]>>
DetSets ==
    { <<>>, <<Person1, Person2>>, <<Car>>, <<Bat>>, <<Glove>>,
      <<Unlabelled>>, KeepConfident(RawAroundThresholds, CONF_THRES),
      <<WholeFrame, Point>> }

\* One pass of the loop body with a result at hand: lines 302-304 and 327-328.
SmoothAndDraw ==
    /\ \E dets \in DetSets : SmootherCall(dets)
    /\ overlay' = make_overlay(latest_dets', shown_fps)
    /\ UNCHANGED <<stop_event, frameChannel, resultChannel, captureVars,
                   processorVars, main_pc, clockVars, adaptorVars,
                   camera, preview, shutdown_calls>>

SmootherSpec == Init /\ [][SmoothAndDraw]_vars

\* ================================================================== claims

\* C1: under every interleaving of the three threads each channel holds at
\* most BUFFER_SIZE items, and a publish attempt that finds its channel full
\* leaves the channel as it was and returns its producer to the loop head.
C1_Capacity ==
    /\ Len(frame_queue) <= BUFFER_SIZE
    /\ Len(result_queue) <= BUFFER_SIZE
C1_FullPublishIsNoOp ==
    /\ (capture_pc \in {"check_full", "put"} /\ capture_pc' # capture_pc
            /\ Len(frame_queue) = BUFFER_SIZE)
         => (frame_queue' = frame_queue /\ capture_pc' = "loop")
    /\ (processor_pc \in {"check_full", "put"} /\ processor_pc' # processor_pc
            /\ Len(result_queue) = BUFFER_SIZE)
         => (result_queue' = result_queue /\ processor_pc' = "loop")
C1_BoundedDropOnFull == []C1_Capacity /\ [][C1_FullPublishIsNoOp]_vars
\* A result was dropped: the processor is back at its loop head with a
\* processed frame that is newer than everything in the full result channel.
C1_Witness ==
    /\ processor_pc = "loop"
    /\ Len(result_queue) = BUFFER_SIZE
    /\ processor.frame_count % processor.frame_skip = 0
    /\ processor_rgb > result_queue[BUFFER_SIZE].rgb

\* C2: a channel always holds the most recent items it accepted, in publish
\* order; when publishes outran the receives and filled it, these are exactly
\* the last BUFFER_SIZE accepted items, and the producer has the next step to
\* take (it is never blocked).
RECURSIVE Frames(_)
Frames(results) ==
    IF results = <<>> THEN <<>> ELSE <<Head(results).rgb>> \o Frames(Tail(results))
MostRecent(queue, accepted) ==
    /\ Len(queue) <= Len(accepted)
    /\ queue = LastN(accepted, Len(queue))
    /\ Len(queue) = BUFFER_SIZE => queue = accepted
C2_MostRecentAccepted ==
    /\ MostRecent(frame_queue, frame_accepted)
    /\ MostRecent(Frames(result_queue), result_accepted)
    /\ capture_pc \in {"check_full", "put"} => ENABLED CaptureNext
    /\ processor_pc \in {"check_full", "put"} => ENABLED ProcessorNext
\* Frames 1.. were accepted, the oldest were received, the channel filled up
\* again and the newest captured frame was dropped.
C2_Witness ==
    /\ capture_pc = "loop"
    /\ Len(frame_queue) = BUFFER_SIZE
    /\ Head(frame_queue) > 1
    /\ capture_rgb > frame_queue[BUFFER_SIZE]

\* C3: once the stop flag is set, the capture thread and the inference thread
\* both terminate.
Terminated(pc) == pc \in {"done", "failed"}
C3_StopTerminatesThreads ==
    stop_event ~> (Terminated(capture_pc) /\ Terminated(processor_pc))
\* Both threads left their loops at the loop head because the flag was set.
C3_Witness == stop_event /\ capture_pc = "done" /\ processor_pc = "done"

\* C4: every exit from the loop runs the finally block once and in order:
\* stop flag, join capture, join inference, set_overlay(None), camera stop,
\* preview stop; no overlay image is pushed once the stop flag is set.
ShutdownOrder ==
    << "stop_event.set", "capture_thread.join", "processor_thread.join",
       "set_overlay(None)", "picam2.stop", "picam2.stop_preview" >>
C4_InOrder ==
    /\ Len(shutdown_calls) <= Len(ShutdownOrder)
    /\ shutdown_calls = SubSeq(ShutdownOrder, 1, Len(shutdown_calls))
    /\ stop_event <=> shutdown_calls # <<>>
    /\ main_pc = "stopped" =>
          /\ shutdown_calls = ShutdownOrder
          /\ overlay = NoOverlay /\ camera = "stopped" /\ preview = "stopped"
    /\ camera = "stopped" => overlay = NoOverlay
C4_NoOverlayAfterStop == stop_event => (overlay' = overlay \/ overlay' = NoOverlay)
C4_ShutdownSequence == []C4_InOrder /\ [][C4_NoOverlayAfterStop]_vars
\* The loop ran, pushed an overlay with a measured FPS, was left, and the
\* finally block has completed.
C4_Witness ==
    /\ main_pc = "stopped"
    /\ shown_fps > 0
    /\ shutdown_calls = ShutdownOrder

\* C5: when a stage dies (the Frame Source or the Detection Model raised),
\* the main loop is left and the pipeline is driven to STOPPED.
C5_StageDeathStopsPipeline ==
    (capture_pc = "failed" \/ processor_pc = "failed") ~> (main_pc = "stopped")

\* C6: the inference thread decimates and infers with the decimation factor
\* and the resolution the adaptor currently holds.
C6_InferenceUsesAdaptorKnobs ==
    processor_pc = "infer" =>
        /\ processor.frame_skip = adaptor.current_skip
        /\ processor.img_size = adaptor.current_img_size

\* C7: after any calls of update_performance the decimation factor is in
\* [1, 4] and the resolution is in [320, IMG_SIZE], whole steps of 96 below
\* IMG_SIZE.
C7_KnobsInRange ==
    /\ adaptor.current_skip \in 1..MAX_SKIP
    /\ adaptor.current_img_size \in MIN_IMG_SIZE..IMG_SIZE
    /\ (IMG_SIZE - adaptor.current_img_size) % IMG_STEP = 0
\* Both knobs sit at a limit with the gate just met, after calls with both
\* low and high samples.
C7_Witness ==
    /\ fed = FpsValues
    /\ gated = GatedCap
    /\ adaptor.since_adjustment = 0
    /\ adaptor.current_skip = 1
    /\ adaptor.current_img_size = IMG_SIZE

\* C8: a call of update_performance changes no knob, and returns the previous
\* pair, unless the window with the new sample holds at least 5 samples and
\* at least adjustment_interval has passed since the last adjustment.
C8_GateOpen ==
    /\ Len(adaptor'.fps_history) >= 5
    /\ adaptor.since_adjustment >= 3
C8_ClosedGateKeepsKnobs ==
    ~C8_GateOpen =>
        /\ adaptor'.current_skip = adaptor.current_skip
        /\ adaptor'.current_img_size = adaptor.current_img_size
        /\ (fed' # fed \/ adaptor'.fps_history # adaptor.fps_history) =>
              /\ current_skip' = adaptor.current_skip
              /\ current_img_size' = adaptor.current_img_size
C8_GateRespected == [][C8_ClosedGateKeepsKnobs]_vars
\* Calls were made with five or more samples in the window, but the interval
\* had not passed: nothing was adjusted and the initial pair was returned.
C8_Witness ==
    /\ Len(adaptor.fps_history) >= 5
    /\ adaptor.since_adjustment < 3
    /\ gated = 0
    /\ current_skip = FRAME_SKIP /\ current_img_size = IMG_SIZE

\* A step is a gated evaluation iff the interval had passed and the stamp of
\* the last adjustment was reset.
GatedEvaluation ==
    /\ adaptor.since_adjustment >= adaptor.adjustment_interval
    /\ adaptor'.since_adjustment = 0
SkipStep(by) ==
    /\ adaptor'.current_skip = adaptor.current_skip + by
    /\ adaptor'.current_img_size = adaptor.current_img_size
SizeStep(by) ==
    /\ adaptor'.current_skip = adaptor.current_skip
    /\ adaptor'.current_img_size = adaptor.current_img_size + by

\* C9 as claimed: on every gated evaluation with the average outside the
\* band exactly one knob changes, the decimation factor first and the
\* resolution (by one step of 96) only when the factor is at its limit.
C9_ExactlyOneKnobStep ==
    GatedEvaluation =>
        /\ PerformanceLow(adaptor', adaptor'.fps_history) =>
              IF adaptor.current_skip < 4 THEN SkipStep(1) ELSE SizeStep(-96)
        /\ PerformanceGood(adaptor', adaptor'.fps_history) =>
              IF adaptor.current_skip > 1 THEN SkipStep(-1) ELSE SizeStep(96)
C9_ExactlyOneKnob == [][C9_ExactlyOneKnobStep]_vars

\* C9 as amended: the same, except that an evaluation that finds both knobs
\* at their limit in its direction (4 and 320 when low, 1 and IMG_SIZE when
\* high) changes neither; never both knobs in one call.
C9_OneKnobUnlessSaturatedStep ==
    GatedEvaluation =>
        /\ PerformanceLow(adaptor', adaptor'.fps_history) =>
              IF adaptor.current_skip < 4 THEN SkipStep(1)
              ELSE IF adaptor.current_img_size > 320 THEN SizeStep(-96)
              ELSE SkipStep(0)
        /\ PerformanceGood(adaptor', adaptor'.fps_history) =>
              IF adaptor.current_skip > 1 THEN SkipStep(-1)
              ELSE IF adaptor.current_img_size < IMG_SIZE THEN SizeStep(96)
              ELSE SkipStep(0)
C9_OneKnobUnlessSaturated == [][C9_OneKnobUnlessSaturatedStep]_vars
\* Four gated evaluations of a low-only stream: 2 -> 3 -> 4, 416 -> 320, and
\* the fourth found both knobs at their limit.
C9_Witness ==
    /\ fed = {LowFps}
    /\ gated = 4
    /\ adaptor.current_skip = MAX_SKIP
    /\ adaptor.current_img_size = MIN_IMG_SIZE

\* C10: from the initial state, under a constant low FPS, no call before the
\* first gated one changes a knob, and the first gated call raises the
\* decimation factor by exactly 1 and leaves the resolution alone.
C10_FirstAdjustment ==
    fed \subseteq {LowFps} =>
        /\ gated = 0 =>
              /\ adaptor.current_skip = FRAME_SKIP
              /\ adaptor.current_img_size = IMG_SIZE
        /\ gated = 1 =>
              /\ adaptor.current_skip = FRAME_SKIP + 1
              /\ adaptor.current_img_size = IMG_SIZE
\* The first gated call of a low-only stream has just been made.
C10_Witness ==
    /\ fed = {LowFps}
    /\ gated = 1
    /\ adaptor.since_adjustment = 0
    /\ adaptor.target_fps = 12


\* C11: with the decimation factor at 1 and the window average above
\* 1.3 * target (a constant high FPS), a gated evaluation raises the
\* resolution by exactly one step of 96 while it is below IMG_SIZE and leaves
\* it alone at IMG_SIZE; the decimation factor stays at 1 and the resolution
\* never exceeds IMG_SIZE.
AllHigh(h) == \A i \in 1..Len(h) : h[i] = HighFps
C11_HighStep ==
    (/\ GatedEvaluation
     /\ adaptor.current_skip = 1
     /\ PerformanceGood(adaptor', adaptor'.fps_history)) =>
        /\ adaptor'.current_skip = 1
        /\ adaptor'.current_img_size =
              IF adaptor.current_img_size < IMG_SIZE
              THEN adaptor.current_img_size + 96
              ELSE adaptor.current_img_size
C11_ResolutionSteps ==
    [](adaptor.current_img_size <= IMG_SIZE) /\ [][C11_HighStep]_vars
\* The last gated evaluation, on a window of high samples only, raised the
\* resolution from 320 to the ceiling.
C11_Witness ==
    /\ effect = <<0, 96>>
    /\ adaptor.current_skip = 1
    /\ adaptor.current_img_size = IMG_SIZE
    /\ Len(adaptor.fps_history) = FPS_WINDOW
    /\ AllHigh(adaptor.fps_history)


\* C12: a historical detection contributes to the smoothed coordinates of a
\* detection only if it has the same class label: every output equals the
\* smoothing of its input over the similar historical detections of its own
\* class name.
ClassName(det) == det[5].words
SmoothOneWithinClass(det, history) ==
    LET near == SimilarDets(det, history)
        sim  == SelectSeq(near, LAMBDA d : ClassName(d) = ClassName(det))
        n    == Len(sim)
    IN  IF n > 0
        THEN << SmoothCoord(det[1], CoordSum(sim, 1), n),
                SmoothCoord(det[2], CoordSum(sim, 2), n),
                SmoothCoord(det[3], CoordSum(sim, 3), n),
                SmoothCoord(det[4], CoordSum(sim, 4), n),
                det[5] >>
        ELSE det
C12_NoMergeAcrossClasses ==
    Len(detection_history) >= 2 =>
        \A i \in 1..Len(smoother_call.dets) :
            latest_dets[i] = SmoothOneWithinClass(smoother_call.dets[i],
                                                  detection_history)


\* C13: when smooth_detections keeps being called with the same detection
\* set, then at the latest once the history holds only copies of that set
\* every output coordinate equals the input coordinate up to the integer
\* truncation.
OnlyCopies(history, dets) ==
    /\ Len(history) >= 2
    /\ \A k \in 1..Len(history) : history[k] = dets
C13_ConstantStreamConverges ==
    OnlyCopies(detection_history, smoother_call.dets) =>
        \A i \in 1..Len(smoother_call.dets) : \A c \in 1..4 :
            Abs(latest_dets[i][c] - smoother_call.dets[i][c]) <= 1


\* C14: every detection in the result channel and every detection the main
\* loop holds for the compositor lies within the frame:
\* 0 <= x1 <= x2 < frame_width and 0 <= y1 <= y2 < frame_height.
InFrame(det) ==
    /\ 0 <= det[1] /\ det[1] <= det[3] /\ det[3] < FRAME_W
    /\ 0 <= det[2] /\ det[2] <= det[4] /\ det[4] < FRAME_H
AllInFrame(dets) == \A i \in 1..Len(dets) : InFrame(dets[i])
C14_BoxesInFrame ==
    /\ \A k \in 1..Len(result_queue) : AllInFrame(result_queue[k].dets)
    /\ AllInFrame(latest_dets)


\* C15: the detection history never holds more than 5 sets; each call of
\* smooth_detections appends its input once, behind the most recent earlier
\* inputs in their order, and evicts the oldest set when 5 were held: the
\* history is the last min(calls, 5) inputs in arrival order.
C15_Length ==
    /\ Len(detection_history) <= 5
    /\ Len(detection_history) = Min(smoother_call.n, 5)
    /\ smoother_call.n > 0 =>
          detection_history[Len(detection_history)] = smoother_call.dets
C15_AppendEvict ==
    LET kept == Len(detection_history') - 1
    IN  /\ Len(detection_history') = Min(Len(detection_history) + 1, 5)
        /\ detection_history'[kept + 1] = smoother_call'.dets
        /\ SubSeq(detection_history', 1, kept) = LastN(detection_history, kept)
C15_HistoryIsLastInputs == []C15_Length /\ [][C15_AppendEvict]_vars
\* More than 5 calls were made: the first input, unlike the last one, is gone.
C15_Witness ==
    /\ smoother_call.n > 5
    /\ Len(detection_history) = 5
    /\ detection_history[1] # detection_history[5]
    /\ detection_history[5] = smoother_call.dets


\* C16: the frame counter of the inference thread grows by exactly 1 with
\* every frame received from the frame channel and not at all on a receive
\* timeout; a frame is inferred and its result published only when the
\* counter after the increment is a multiple of frame_skip, every other frame
\* goes back to the loop head; so the results published never exceed
\* floor(frames received / frame_skip).
C16_Receive ==
    (processor_pc = "get" /\ processor_pc' # "get") =>
        IF frame_queue = <<>>
        THEN /\ processor'.frame_count = processor.frame_count
             /\ processor_pc' = "loop"
        ELSE /\ processor'.frame_count = processor.frame_count + 1
             /\ frame_queue' = Tail(frame_queue)
             /\ processor_pc' =
                   IF (processor.frame_count + 1) % processor.frame_skip = 0
                   THEN "infer" ELSE "loop"
C16_CounterOnlyOnReceive ==
    /\ processor'.frame_count # processor.frame_count => processor_pc = "get"
    /\ published' # published =>
          /\ processor_pc = "put"
          /\ published' = published + 1
          /\ processor.frame_count % processor.frame_skip = 0
C16_Bound ==
    /\ processor_pc \in {"infer", "check_full", "put"} =>
          processor.frame_count % processor.frame_skip = 0
    /\ published <= processor.frame_count \div processor.frame_skip
    /\ processor_pc \in {"infer", "check_full", "put"} =>
          published < processor.frame_count \div processor.frame_skip
C16_Decimation ==
    []C16_Bound /\ [][C16_Receive /\ C16_CounterOnlyOnReceive]_vars
\* Six frames were received, every second one was inferred and published.
C16_Witness ==
    /\ processor.frame_count = 6
    /\ published = 3
    /\ processor_pc = "loop"


\* C17: the main loop never waits for a result: a pass that finds the result
\* channel empty leaves the latest detection set and the smoother's history
\* as they are and goes on to the FPS accounting; smooth_detections is called
\* exactly once for each result taken from the channel and at no other time.
C17_DrainStep ==
    /\ (main_pc = "drain" /\ main_pc' = "account") =>
          IF result_queue = <<>>
          THEN UNCHANGED <<latest_dets, detection_history, smoother_call,
                           result_queue>>
          ELSE /\ result_queue' = Tail(result_queue)
               /\ smoother_call' = [n |-> smoother_call.n + 1,
                                    dets |-> Head(result_queue).dets]
    /\ (\/ smoother_call' # smoother_call
        \/ latest_dets' # latest_dets
        \/ detection_history' # detection_history
        \/ Len(result_queue') < Len(result_queue)) =>
          /\ main_pc = "drain"
          /\ result_queue # <<>>
          /\ result_queue' = Tail(result_queue)
          /\ smoother_call'.n = smoother_call.n + 1
C17_NeverWaits ==
    /\ (main_pc = "drain" /\ result_queue = <<>>) => ENABLED MainDrain
    /\ published = smoother_call.n + Len(result_queue)
C17_NonBlockingDrain == []C17_NeverWaits /\ [][C17_DrainStep]_vars
\* The second result (the first with a box that is drawn) was smoothed and
\* drawn, and the pass after that found the channel empty and kept the
\* detection set.
C17_Witness ==
    /\ main_pc = "account"
    /\ result_queue = <<>>
    /\ smoother_call.n = 2
    /\ overlay.boxes # <<>>
    /\ overlay.boxes = latest_dets


\* C18: every call of update_performance that meets the gate resets the time
\* since the last adjustment to zero, also when it changes no knob; so every
\* gated evaluation, and with it every knob change, comes at least
\* adjustment_interval after the gated evaluation before it (or after the
\* construction).
C18_GatedCall ==
    /\ adaptor.since_adjustment >= 3
    /\ Len(adaptor'.fps_history) >= 5
    /\ (fed' # fed \/ adaptor' # adaptor)
C18_Step ==
    /\ C18_GatedCall => adaptor'.since_adjustment = 0
    /\ (\/ adaptor'.current_skip # adaptor.current_skip
        \/ adaptor'.current_img_size # adaptor.current_img_size
        \/ gated' # gated
        \/ adaptor'.since_adjustment < adaptor.since_adjustment) =>
          /\ adaptor.since_adjustment >= 3
          /\ adaptor'.since_adjustment = 0
C18_StampOnEveryGatedCall == [][C18_Step]_vars
\* A gated call found the average inside the band (low and high samples in
\* the window), changed no knob, and reset the stamp.
C18_Witness ==
    /\ gated = 1
    /\ effect = <<0, 0>>
    /\ adaptor.since_adjustment = 0
    /\ adaptor.current_skip = FRAME_SKIP
    /\ adaptor.current_img_size = IMG_SIZE
    /\ ~PerformanceLow(adaptor, adaptor.fps_history)
    /\ ~PerformanceGood(adaptor, adaptor.fps_history)


\* C19: smooth_detections returns as many detections as it was given, the
\* i-th one with the label of the i-th input unchanged; while the history
\* holds fewer than 2 sets after the append (the first call) it returns its
\* input unchanged.
C19_OrderAndLabels ==
    /\ Len(latest_dets) = Len(smoother_call.dets)
    /\ \A i \in 1..Len(smoother_call.dets) :
          latest_dets[i][5] = smoother_call.dets[i][5]
    /\ Len(detection_history) < 2 => latest_dets = smoother_call.dets
\* A later call moved both boxes of its input, in place and with their own
\* labels.
C19_Witness ==
    /\ smoother_call.n >= 2
    /\ Len(smoother_call.dets) = 2
    /\ \A i \in 1..2 :
          /\ latest_dets[i][1] # smoother_call.dets[i][1]
          /\ latest_dets[i][5] = smoother_call.dets[i][5]
    /\ latest_dets[1][5] # latest_dets[2][5]


\* The detections of dets that make_overlay draws according to the number at
\* the end of their label.
ConfidentByLabel(dets) ==
    SelectSeq(dets, LAMBDA d : d[5].conf = NoConf \/ d[5].conf >= 50)
IsDrawn(det) == \E k \in 1..Len(overlay.boxes) : overlay.boxes[k] = det

\* C20 as claimed: the compositor draws a detection iff the confidence at the
\* end of its label is at least 0.5 (a label without one is drawn), so a
\* detection that the model reported with a confidence below 0.5 is never
\* drawn.
C20_DrawnIffAtLeastHalf ==
    /\ overlay.boxes = ConfidentByLabel(latest_dets)
    /\ \A i \in 1..Len(latest_dets) :
          (latest_dets[i][5].conf # NoConf /\ latest_dets[i][5].reported < 500)
             => ~IsDrawn(latest_dets[i])

\* C20 as amended: the compositor draws a detection iff the confidence at the
\* end of its label is at least 0.5 (a label without one is drawn); the label
\* shows the reported confidence rounded to two decimals, so a detection
\* reported below 0.495 is never drawn, while one reported between 0.495 and
\* 0.5 is labelled 0.50 and is drawn.
C20_DrawnIffLabelAtLeastHalf ==
    /\ overlay.boxes = ConfidentByLabel(latest_dets)
    /\ \A i \in 1..Len(latest_dets) :
          LET label == latest_dets[i][5]
          IN  label.conf # NoConf =>
                 /\ label.reported < 495 => ~IsDrawn(latest_dets[i])
                 /\ label.reported > 495 => IsDrawn(latest_dets[i])
\* The compositor was handed a detection reported at 0.40, above the
\* inference threshold, which it did not draw, and one reported at 0.496,
\* which it drew.
C20_Witness ==
    /\ \E i \in 1..Len(latest_dets) :
          /\ latest_dets[i][5].reported = 400
          /\ ~IsDrawn(latest_dets[i])
    /\ \E k \in 1..Len(overlay.boxes) :
          /\ overlay.boxes[k][5].reported = 496
          /\ overlay.boxes[k][5].conf = 50


\* C21: the test for full and the put that follows it cannot be separated by
\* another producer: whenever a producer is about to put, its channel is
\* below capacity, so the put never raises queue.Full, appends its item and
\* leaves the channel at or below capacity.
C21_RoomAtPut ==
    /\ capture_pc = "put" => Len(frame_queue) < BUFFER_SIZE
    /\ processor_pc = "put" => Len(result_queue) < BUFFER_SIZE
C21_PutStep ==
    /\ (capture_pc = "put" /\ capture_pc' # "put") =>
          /\ frame_queue' = Append(frame_queue, capture_rgb)
          /\ Len(frame_queue') <= BUFFER_SIZE
    /\ (processor_pc = "put" /\ processor_pc' # "put") =>
          /\ Len(result_queue') = Len(result_queue) + 1
          /\ result_queue'[Len(result_queue')].rgb = processor_rgb
          /\ Len(result_queue') <= BUFFER_SIZE
    /\ Len(frame_queue') > Len(frame_queue) => capture_pc = "put"
    /\ Len(result_queue') > Len(result_queue) => processor_pc = "put"
C21_PublishRaceFree == []C21_RoomAtPut /\ [][C21_PutStep]_vars
\* Both producers have passed their test and are about to put, the inference
\* thread into a result channel that its put will fill.
C21_Witness ==
    /\ capture_pc = "put"
    /\ processor_pc = "put"
    /\ Len(result_queue) = BUFFER_SIZE - 1
    /\ Len(frame_queue) >= 1


\* C22: when every detection of the input and of the history lies within the
\* frame (0 <= x1 <= x2 < W, 0 <= y1 <= y2 < H), so does every detection that
\* smooth_detections returns, and its x1 and y1 are less than 50 away from
\* the input's.
C22_SmoothingKeepsBoxesWellFormed ==
    (\A k \in 1..Len(detection_history) : AllInFrame(detection_history[k])) =>
        /\ AllInFrame(latest_dets)
        /\ \A i \in 1..Len(latest_dets) :
              /\ Abs(latest_dets[i][1] - smoother_call.dets[i][1]) < 50
              /\ Abs(latest_dets[i][2] - smoother_call.dets[i][2]) < 50
\* An empty box was smoothed with a frame-filling neighbour: its corner moved
\* and it grew, and the neighbour shrank away from the frame's edge.
C22_Witness ==
    /\ smoother_call.n >= 2
    /\ \E i \in 1..Len(latest_dets) :
          /\ smoother_call.dets[i][1] = smoother_call.dets[i][3]
          /\ latest_dets[i][1] < smoother_call.dets[i][1]
          /\ latest_dets[i][3] > smoother_call.dets[i][3]
    /\ \E j \in 1..Len(latest_dets) :
          /\ smoother_call.dets[j][3] = FRAME_W - 1
          /\ latest_dets[j][3] < FRAME_W - 1
          /\ latest_dets[j][1] > 0

====
